---- MODULE Spec2Model ----
(***************************************************************************)
(* Model of Python/sentiment_analysis.py: a straight-line pipeline over a  *)
(* table of titles.  Strings are sequences of characters, a character is   *)
(* a one-element atom ("a", ",", " "); tables are sequences of records.    *)
(***************************************************************************)
EXTENDS Integers, Sequences, FiniteSets, TLC

(* ---------------------------- bounds ----------------------------------- *)
\* n of nlargest (line 6 uses n=1000); scaled down so that the cut-off falls
\* inside the tables the model enumerates.
K == 3
\* largest number of rows of an enumerated input table
MaxRows == 4
\* largest length of the titles enumerated exhaustively over Alphabet
MaxLen == 3

(* ---------------------------- characters ------------------------------- *)
Upper == <<"A","B","C","D","E","F","G","H","I","J","K","L","M",
           "N","O","P","Q","R","S","T","U","V","W","X","Y","Z">>
LowerLetters == <<"a","b","c","d","e","f","g","h","i","j","k","l","m",
                  "n","o","p","q","r","s","t","u","v","w","x","y","z">>
AsciiDigits == {"0","1","2","3","4","5","6","7","8","9"}
\* a decimal digit outside ASCII (ARABIC-INDIC DIGIT THREE): one character
ArabicThree == "U+0663"
UnicodeDigits == AsciiDigits \cup {ArabicThree}
Range(s) == {s[i] : i \in 1..Len(s)}

\* str.isspace of the characters used
IsSpace(c) == c = " "

\* one character of str.lower(): upper-case letters map to lower case,
\* everything else is unchanged
lower(c) ==
  IF \E i \in 1..Len(Upper) : Upper[i] = c
    THEN LowerLetters[CHOOSE i \in 1..Len(Upper) : Upper[i] = c]
    ELSE c

\* the character class [a-z@\d] of the pattern on line 15; the pattern is a
\* str pattern, so \d is every Unicode decimal digit
InClass(c) == c \in Range(LowerLetters) \cup {"@"} \cup UnicodeDigits

\* a missing string value (NaN in an object column); str.split never yields
\* an empty fragment, so the empty sequence is free to stand for it
NaN == <<>>

(* ---------------------------- tokenizer -------------------------------- *)
RECURSIVE SplitFrom(_, _, _)
SplitFrom(s, i, cur) ==
  IF i > Len(s)
    THEN IF cur = <<>> THEN <<>> ELSE <<cur>>
    ELSE IF IsSpace(s[i])
      THEN (IF cur = <<>> THEN <<>> ELSE <<cur>>) \o SplitFrom(s, i + 1, <<>>)
      ELSE SplitFrom(s, i + 1, Append(cur, s[i]))

\* str.split() with no separator: the runs of non-whitespace characters
str_split(s) == SplitFrom(s, 1, <<>>)

\* str.lower() of a whole string
str_lower(s) == [i \in 1..Len(s) |-> lower(s[i])]

RECURSIVE SkipSpace(_, _)
\* \s* : first position at or after i that is not whitespace
SkipSpace(s, i) ==
  IF i <= Len(s) /\ IsSpace(s[i]) THEN SkipSpace(s, i + 1) ELSE i

RECURSIVE RunEnd(_, _)
\* [a-z@\d]+ (greedy): first position at or after i that is outside the class
RunEnd(s, i) ==
  IF i <= Len(s) /\ InClass(s[i]) THEN RunEnd(s, i + 1) ELSE i

RECURSIVE SkipColonSpace(_, _)
\* [:\s]* : first position at or after i that is neither ':' nor whitespace
SkipColonSpace(s, i) ==
  IF i <= Len(s) /\ (s[i] = ":" \/ IsSpace(s[i]))
    THEN SkipColonSpace(s, i + 1) ELSE i

RECURSIVE findallFrom_first(_, _)
\* variant: only the first match of each subject is kept (str.extract)
findallFrom_first(s, i) ==
  IF i > Len(s) THEN <<>>
  ELSE LET j == SkipSpace(s, i)
           k == RunEnd(s, j)
       IN IF k > j THEN <<SubSeq(s, j, k - 1)>> ELSE findallFrom_first(s, i + 1)

RECURSIVE findallFrom(_, _)
\* regex.findall: scan left to right; a match at i captures the group and
\* the scan resumes after the match, a failure at i retries at i + 1
findallFrom(s, i) ==
  IF i > Len(s) THEN <<>>
  ELSE LET j == SkipSpace(s, i)
           k == RunEnd(s, j)
       IN IF k > j
            THEN <<SubSeq(s, j, k - 1)>> \o findallFrom(s, SkipColonSpace(s, k))
            ELSE findallFrom(s, i + 1)

findall(s) == findallFrom(s, 1)

RECURSIVE explode(_)
\* DataFrame.explode("title"): one row per list element, the index repeated;
\* an empty list gives one row holding NaN
explode(rows) ==
  IF rows = <<>> THEN <<>>
  ELSE LET r == Head(rows)
           one == IF r.title = <<>>
                    THEN << [index |-> r.index, title |-> NaN] >>
                    ELSE [i \in 1..Len(r.title) |->
                            [index |-> r.index, title |-> r.title[i]]]
       IN one \o explode(Tail(rows))

RECURSIVE extractall(_)
\* str.extractall + droplevel + rename + reset_index (lines 15-18): one row
\* per match, in row order then match order; NaN subjects are skipped
extractall(rows) ==
  IF rows = <<>> THEN <<>>
  ELSE LET r == Head(rows)
           m == IF r.title = NaN THEN <<>> ELSE findall(r.title)
       IN [i \in 1..Len(m) |-> [index |-> r.index, word |-> m[i]]]
          \o extractall(Tail(rows))

\* lines 10-18 applied to the selected rows
Tokenizer(rows) ==
  LET splitted == [i \in 1..Len(rows) |->
                     [index |-> rows[i].index, title |-> str_split(rows[i].title)]]
      exploded == explode(splitted)
      lowered  == [i \in 1..Len(exploded) |->
                     [index |-> exploded[i].index,
                      title |-> IF exploded[i].title = NaN THEN NaN
                                ELSE str_lower(exploded[i].title)]]
  IN extractall(lowered)

(* ---------------------------- selector --------------------------------- *)
RECURSIVE SortDesc_keeplast(_, _)
\* variant: of equal values the later row comes first (keep="last")
SortDesc_keeplast(frame, remaining) ==
  IF remaining = {} THEN <<>>
  ELSE LET i == CHOOSE i \in remaining : \A j \in remaining :
                   \/ frame[j].total_weeks < frame[i].total_weeks
                   \/ frame[j].total_weeks = frame[i].total_weeks /\ i >= j
       IN <<i>> \o SortDesc_keeplast(frame, remaining \ {i})

RECURSIVE SortDesc(_, _)
\* positions of frame ordered by total_weeks descending, equal values in
\* original order (the stable argsort of Series.nlargest, keep="first")
SortDesc(frame, remaining) ==
  IF remaining = {} THEN <<>>
  ELSE LET i == CHOOSE i \in remaining : \A j \in remaining :
                   \/ frame[j].total_weeks < frame[i].total_weeks
                   \/ frame[j].total_weeks = frame[i].total_weeks /\ i <= j
       IN <<i>> \o SortDesc(frame, remaining \ {i})

\* every ordering of all positions by total_weeks descending: when n covers
\* the whole frame nlargest is sort_values(ascending=False).head(n) with the
\* default (unstable) sort, so the order of equal values is not determined
AnyDesc(frame) ==
  {p \in [1..Len(frame) -> 1..Len(frame)] :
     /\ \A a, b \in 1..Len(frame) : a # b => p[a] # p[b]
     /\ \A a, b \in 1..Len(frame) :
          a < b => frame[p[a]].total_weeks >= frame[p[b]].total_weeks}

\* the orders of positions nlargest(n, "total_weeks") can return
nlargest(frame, n) ==
  IF n < Len(frame)
    THEN {SubSeq(SortDesc(frame, 1..Len(frame)), 1, n)}
    ELSE AnyDesc(frame)

\* line 7: keep the title column; the row keeps its original (0-based) index
TitleRows(frame, order) ==
  [i \in 1..Len(order) |->
     [index |-> order[i] - 1, title |-> frame[order[i]].title]]

(* ---------------------------- stopwords, lexicon ----------------------- *)
\* wordcloud.STOPWORDS restricted to the words the enumerated titles can form
STOPWORDS == { <<"a">>, <<"t","h","e">> }

\* variant: the mask is not applied, every row is kept
FilterStopwords_keep(rows) == rows

RECURSIVE FilterStopwords_unique(_)
\* variant: stopwords are removed and so are the earlier repeats of a word
FilterStopwords_unique(rows) ==
  IF rows = <<>> THEN <<>>
  ELSE (IF \/ Head(rows).word \in STOPWORDS
           \/ \E i \in 2..Len(rows) : rows[i].word = Head(rows).word
          THEN <<>> ELSE <<Head(rows)>>)
       \o FilterStopwords_unique(Tail(rows))

\* [~text_data.word.isin(stopwords)] (line 27): boolean-mask row selection
RECURSIVE FilterStopwords(_)
FilterStopwords(rows) ==
  IF rows = <<>> THEN <<>>
  ELSE (IF Head(rows).word \in STOPWORDS THEN <<>> ELSE <<Head(rows)>>)
       \o FilterStopwords(Tail(rows))

\* Afinn(language="en").score of one token: the valence of the token when the
\* lexicon lists it, 0.0 otherwise ("bad" is listed with -3)
afn_score(word) == IF word = <<"b","a","d">> THEN -3 ELSE 0

\* lines 30-31
WordsOf(rows) == [i \in 1..Len(rows) |-> rows[i].word]
ScoresOf(ws) == [i \in 1..Len(ws) |-> afn_score(ws[i])]

RECURSIVE Sentiments_distinct(_, _)
\* variant: one row per distinct word (the last occurrence of each)
Sentiments_distinct(ws, sc) ==
  IF ws = <<>> THEN <<>>
  ELSE (IF \E i \in 2..Len(ws) : ws[i] = Head(ws)
          THEN <<>> ELSE << [word |-> Head(ws), scores |-> Head(sc)] >>)
       \o Sentiments_distinct(Tail(ws), Tail(sc))

RECURSIVE Sentiments_known(_, _)
\* variant: only the words the lexicon gives a non-zero score are kept
Sentiments_known(ws, sc) ==
  IF ws = <<>> THEN <<>>
  ELSE (IF Head(sc) = 0
          THEN <<>> ELSE << [word |-> Head(ws), scores |-> Head(sc)] >>)
       \o Sentiments_known(Tail(ws), Tail(sc))

\* lines 34-36: one row per element of words, in order
Sentiments(ws, sc) == [i \in 1..Len(ws) |-> [word |-> ws[i], scores |-> sc[i]]]

(* ---------------------------- aggregator ------------------------------- *)
Count(ws, w) == Cardinality({i \in 1..Len(ws) : ws[i] = w})

\* pd.value_counts (line 44-47): one row per distinct word, ordered by count
\* descending; the order of words with equal counts depends on the sort used
value_counts(ws) ==
  LET D == Range(ws)
      N == Cardinality(D)
  IN {[i \in 1..N |-> [word |-> p[i], n |-> Count(ws, p[i])]] :
        p \in {q \in [1..N -> D] :
                 /\ \A a, b \in 1..N : a # b => q[a] # q[b]
                 /\ \A a, b \in 1..N : a < b => Count(ws, q[a]) >= Count(ws, q[b])}}

\* the threshold of the query on line 50
MinCount == 3

RECURSIVE query_gt(_)
\* variant: the comparison is strict
query_gt(rows) ==
  IF rows = <<>> THEN <<>>
  ELSE (IF Head(rows).n > MinCount THEN <<Head(rows)>> ELSE <<>>)
       \o query_gt(Tail(rows))

\* plot_data.query('n >= 3') (line 50)
RECURSIVE query(_)
query(rows) ==
  IF rows = <<>> THEN <<>>
  ELSE (IF Head(rows).n >= MinCount THEN <<Head(rows)>> ELSE <<>>)
       \o query(Tail(rows))

\* a float cell of the merged table: <<v>> holds v, <<>> is a missing value
Some(v) == <<v>>
NaNScore == <<>>

RECURSIVE MatchesOf(_, _)
\* the rows of the right table whose key equals w, in the right table's order
MatchesOf(right, w) ==
  IF right = <<>> THEN <<>>
  ELSE (IF Head(right).word = w THEN <<Head(right)>> ELSE <<>>)
       \o MatchesOf(Tail(right), w)

RECURSIVE merge(_, _)
\* left.merge(right, on="word", how="left") (line 53): left order kept, one
\* output row per matching right row, one row with a missing score if none
merge(left, right) ==
  IF left = <<>> THEN <<>>
  ELSE LET l == Head(left)
           m == MatchesOf(right, l.word)
           out == IF m = <<>>
                    THEN << [word |-> l.word, n |-> l.n, scores |-> NaNScore] >>
                    ELSE [i \in 1..Len(m) |->
                            [word |-> l.word, n |-> l.n, scores |-> Some(m[i].scores)]]
       IN out \o merge(Tail(left), right)

\* variant: no row is dropped
drop_duplicates_none(rows) == rows

RECURSIVE DropFrom(_, _)
DropFrom(rows, seen) ==
  IF rows = <<>> THEN <<>>
  ELSE IF Head(rows) \in seen
    THEN DropFrom(Tail(rows), seen)
    ELSE <<Head(rows)>> \o DropFrom(Tail(rows), seen \cup {Head(rows)})

\* DataFrame.drop_duplicates() (line 54): the first of each group of rows
\* equal in every column is kept
drop_duplicates(rows) == DropFrom(rows, {})

(* ---------------------------- renderer --------------------------------- *)
RECURSIVE join(_)
\* " ".join(...) (line 58)
join(ws) ==
  IF ws = <<>> THEN <<>>
  ELSE IF Len(ws) = 1 THEN Head(ws)
  ELSE Head(ws) \o <<" ">> \o join(Tail(ws))

(* ---------------------------- inputs ----------------------------------- *)
Alphabet == {"a", "B", ",", ":", " ", "@", "1", ArabicThree}
\* read_csv loads a title column made only of numerals as numbers, not as
\* strings; such columns are outside the tables enumerated here
IsNumeral(t) == \A i \in 1..Len(t) : t[i] \in AsciiDigits \cup {" "}
AllTitles == {t \in UNION {[1..n -> Alphabet] : n \in 1..MaxLen} :
                ~IsNumeral(t) \/ \A i \in 1..Len(t) : t[i] = " "}
HelloWorld == <<"H","e","l","l","o",","," ","W","o","r","l","d","!","!">>
TheCatSat == <<"T","h","e"," ","C","a","t"," ","S","a","t">>
\* tables of one row: every short title, and the two titles of the examples
SingleTables ==
  {<< [title |-> t, total_weeks |-> 1] >> : t \in AllTitles \cup {HelloWorld, TheCatSat}}
SmallTitles == { <<"a"," ","b","a","d">>, <<"B","a","d"," ","b","a","d">>,
                 <<"b",",","c"," ","b">>, <<"!">> }
Weeks == {1, 2}
\* tables of up to MaxRows rows (the empty table included)
SmallTables ==
  UNION {[1..n -> [title : SmallTitles, total_weeks : Weeks]] : n \in 0..MaxRows}

(* ---------------------------- state ------------------------------------ *)
VARIABLES pc, nyt_titles, text_data, words, scores, sentiments, plot_data,
          text, stages
vars == <<pc, nyt_titles, text_data, words, scores, sentiments, plot_data,
          text, stages>>

\* line 3 has run: the table is loaded, nothing else is bound yet
Init ==
  /\ nyt_titles \in SingleTables \cup SmallTables
  /\ pc = "select"
  /\ text_data = <<>>
  /\ words = <<>>
  /\ scores = <<>>
  /\ sentiments = <<>>
  /\ plot_data = <<>>
  /\ text = <<>>
  /\ stages = <<>>

\* lines 6-7
Select ==
  /\ pc = "select"
  /\ Len(nyt_titles) > 0
  /\ \E order \in nlargest(nyt_titles, K) :
       text_data' = TitleRows(nyt_titles, order)
  /\ pc' = "tokenize"
  /\ stages' = Append(stages, "selector")
  /\ UNCHANGED <<nyt_titles, words, scores, sentiments, plot_data, text>>

\* line 6 on a table without rows: read_csv gives the columns of an empty
\* table the object dtype, which nlargest rejects with a TypeError
SelectFail ==
  /\ pc = "select"
  /\ Len(nyt_titles) = 0
  /\ pc' = "failed"
  /\ stages' = Append(stages, "selector")
  /\ UNCHANGED <<nyt_titles, text_data, words, scores, sentiments, plot_data, text>>

\* lines 10-18
Tokenize ==
  /\ pc = "tokenize"
  /\ text_data' = Tokenizer(text_data)
  /\ pc' = "filter"
  /\ stages' = Append(stages, "tokenizer")
  /\ UNCHANGED <<nyt_titles, words, scores, sentiments, plot_data, text>>

\* lines 26-27
Filter ==
  /\ pc = "filter"
  /\ text_data' = FilterStopwords(text_data)
  /\ pc' = "score"
  /\ stages' = Append(stages, "stopword filter")
  /\ UNCHANGED <<nyt_titles, words, scores, sentiments, plot_data, text>>

\* lines 30-36
Score ==
  /\ pc = "score"
  /\ words' = WordsOf(text_data)
  /\ scores' = ScoresOf(words')
  /\ sentiments' = Sentiments(words', scores')
  /\ pc' = "average"
  /\ stages' = Append(stages, "scorer")
  /\ UNCHANGED <<nyt_titles, text_data, plot_data, text>>

\* variant: the mean of an empty column does not raise
mean_raises_never(col) == FALSE

\* line 40: statistics.mean raises StatisticsError on an empty sequence
mean_raises(col) == Len(col) = 0

Average ==
  /\ pc = "average"
  /\ ~mean_raises(sentiments)
  /\ pc' = "aggregate"
  /\ stages' = Append(stages, "average")
  /\ UNCHANGED <<nyt_titles, text_data, words, scores, sentiments, plot_data, text>>

AverageFail ==
  /\ pc = "average"
  /\ mean_raises(sentiments)
  /\ pc' = "failed"
  /\ stages' = Append(stages, "average")
  /\ UNCHANGED <<nyt_titles, text_data, words, scores, sentiments, plot_data, text>>

\* lines 44-54
Aggregate ==
  /\ pc = "aggregate"
  /\ \E counts \in value_counts(words) :
       plot_data' = drop_duplicates(merge(query(counts), sentiments))
  /\ pc' = "render"
  /\ stages' = Append(stages, "aggregator")
  /\ UNCHANGED <<nyt_titles, text_data, words, scores, sentiments, text>>

\* lines 58-64
Render ==
  /\ pc = "render"
  /\ text' = join(WordsOf(text_data))
  /\ pc' = "done"
  /\ stages' = Append(stages, "renderer")
  /\ UNCHANGED <<nyt_titles, text_data, words, scores, sentiments, plot_data>>

Next ==
  \/ Select
  \/ SelectFail
  \/ Tokenize
  \/ Filter
  \/ Score
  \/ Average
  \/ AverageFail
  \/ Aggregate
  \/ Render

Spec == Init /\ [][Next]_vars

(* ======================================================================= *)
(* Properties                                                              *)
(* ======================================================================= *)
Min(a, b) == IF a < b THEN a ELSE b
Ended == pc \in {"done", "failed"}
AfterAggregate == pc \in {"render", "done"}
AfterScore ==
  \/ pc \in {"average", "aggregate", "render", "done"}
  \/ pc = "failed" /\ Len(stages) = 5

\* number of whitespace-delimited fragments of a title, counted by the
\* positions where a fragment starts
NFragments(t) ==
  Cardinality({i \in 1..Len(t) :
                 ~IsSpace(t[i]) /\ (i = 1 \/ IsSpace(t[i - 1]))})

\* number of maximal runs of pattern-class characters of the lower-cased title
NRuns(t) ==
  Cardinality({i \in 1..Len(t) :
                 InClass(lower(t[i])) /\ (i = 1 \/ ~InClass(lower(t[i - 1])))})

\* number of rows of the token table that come from the row with index ix
TokensOf(rows, ix) == Cardinality({i \in 1..Len(rows) : rows[i].index = ix})

\* occurrences of w in a sequence of words, counted recursively
RECURSIVE Occurrences(_, _)
Occurrences(ws, w) ==
  IF ws = <<>> THEN 0
  ELSE (IF Head(ws) = w THEN 1 ELSE 0) + Occurrences(Tail(ws), w)

\* the rows of nyt_titles (by position) the selector passed on
SelectedPos == {text_data[i].index + 1 : i \in 1..Len(text_data)}

(* ---- C1 --------------------------------------------------------------- *)
\* C1 (as claimed): for every title handed to the tokenizer, the number of
\* tokens emitted for it is at most its number of whitespace-delimited
\* fragments, and a title without pattern-class characters gives no token.
C1_AtMostOnePerFragment ==
  [][pc = "tokenize" =>
       \A i \in 1..Len(text_data) :
         /\ TokensOf(text_data', text_data[i].index) <= NFragments(text_data[i].title)
         /\ NRuns(text_data[i].title) = 0 => TokensOf(text_data', text_data[i].index) = 0
    ]_vars

\* C1 (amended): for every title handed to the tokenizer, the tokenizer emits
\* exactly one token per maximal run of characters of the class [a-z@\d] in
\* the lower-cased title, so a fragment holding several runs gives several
\* tokens and a fragment without such characters gives none; titles that are
\* not handed to the tokenizer give no token.
C1_OneTokenPerRun ==
  [][pc = "tokenize" =>
       /\ \A i \in 1..Len(text_data) :
            TokensOf(text_data', text_data[i].index) = NRuns(text_data[i].title)
       /\ \A j \in 1..Len(text_data') :
            \E i \in 1..Len(text_data) : text_data[i].index = text_data'[j].index
    ]_vars

C1_Witness ==
  /\ pc = "filter"
  /\ \E p \in 1..Len(nyt_titles) :
       /\ TokensOf(text_data, p - 1) > NFragments(nyt_titles[p].title)
       /\ NFragments(nyt_titles[p].title) >= 1

(* ---- C2 --------------------------------------------------------------- *)
PlainChars == Range(LowerLetters) \cup AsciiDigits \cup {"@"}

\* C2: every token the tokenizer emits is a non-empty string made only of
\* the characters a-z, 0-9 and @, and the title "Hello, World!!" gives
\* exactly the tokens "hello", "world".
C2_TokensPlain ==
  pc = "filter" =>
    /\ \A i \in 1..Len(text_data) :
         /\ text_data[i].word # <<>>
         /\ Range(text_data[i].word) \subseteq PlainChars
    /\ nyt_titles = << [title |-> HelloWorld, total_weeks |-> 1] >> =>
         WordsOf(text_data) = << <<"h","e","l","l","o">>, <<"w","o","r","l","d">> >>

(* ---- C3 --------------------------------------------------------------- *)
\* C3: no word of the stopword set is the word of a row of plot_data.
C3_NoStopwordInResult ==
  AfterAggregate => \A i \in 1..Len(plot_data) : plot_data[i].word \notin STOPWORDS

ABad == <<"a"," ","b","a","d">>
C3_Witness ==
  /\ pc = "done"
  /\ Len(plot_data) > 0
  /\ Cardinality({p \in SelectedPos : nyt_titles[p].title = ABad}) >= MinCount

(* ---- C4 --------------------------------------------------------------- *)
\* C4: after merge and drop_duplicates no two rows of plot_data hold the
\* same word.
C4_OneRowPerWord ==
  AfterAggregate =>
    \A i, j \in 1..Len(plot_data) : plot_data[i].word = plot_data[j].word => i = j

C4_Witness ==
  /\ pc = "done"
  /\ Len(plot_data) >= 2
  /\ \A i \in 1..Len(plot_data) :
       Cardinality({j \in 1..Len(sentiments) : sentiments[j].word = plot_data[i].word}) >= 3

(* ---- C5 --------------------------------------------------------------- *)
\* C5: a word is in plot_data exactly when it occurs at least 3 times in the
\* filtered token sequence, and the n of its row is its number of occurrences
\* there; no row has n < 3.
C5_CountsExact ==
  AfterAggregate =>
    /\ \A w \in Range(WordsOf(text_data)) :
         (Occurrences(WordsOf(text_data), w) >= 3)
           <=> (\E i \in 1..Len(plot_data) : plot_data[i].word = w)
    /\ \A i \in 1..Len(plot_data) :
         /\ plot_data[i].n = Occurrences(WordsOf(text_data), plot_data[i].word)
         /\ plot_data[i].n >= 3

C5_Witness ==
  /\ pc = "done"
  /\ \E i \in 1..Len(plot_data) : plot_data[i].n = 3
  /\ \E w \in Range(WordsOf(text_data)) :
       /\ Occurrences(WordsOf(text_data), w) < 3
       /\ \A i \in 1..Len(plot_data) : plot_data[i].word # w

(* ---- C6 --------------------------------------------------------------- *)
\* C6 (as claimed): no word is the key of more than one row of sentiments.
C6_NoDuplicateKeys ==
  AfterScore =>
    \A i, j \in 1..Len(sentiments) : sentiments[i].word = sentiments[j].word => i = j

\* C6 (amended): sentiments holds one row per token of the filtered sequence,
\* in order, repeats included: a word that survives m times is the key of m
\* rows, and all rows of one word carry the same score.
C6_OneRowPerToken ==
  AfterScore =>
    /\ Len(sentiments) = Len(text_data)
    /\ \A i \in 1..Len(sentiments) : sentiments[i].word = text_data[i].word
    /\ \A i, j \in 1..Len(sentiments) :
         sentiments[i].word = sentiments[j].word =>
           sentiments[i].scores = sentiments[j].scores

C6_Witness ==
  /\ pc = "aggregate"
  /\ \E i, j \in 1..Len(sentiments) :
       i # j /\ sentiments[i].word = sentiments[j].word

NonStopPos(rows) == {i \in 1..Len(rows) : rows[i].word \notin STOPWORDS}
\* the k-th smallest of a set of positions
KthPos(P, k) == CHOOSE p \in P : Cardinality({q \in P : q <= p}) = k
\* the rows at the positions P, in increasing order of position
RowsAt(rows, P) == [k \in 1..Cardinality(P) |-> rows[KthPos(P, k)]]

\* C8: the stopword filter's output is the tokenizer's output restricted to
\* the rows whose word is not a stopword, order and repeats kept; the title
\* "The Cat Sat" gives "cat", "sat"; the renderer's text is the filtered
\* words joined in order by single blanks.
C8_FilterIsSubsequence ==
  [][ /\ pc = "filter" =>
           /\ text_data' = RowsAt(text_data, NonStopPos(text_data))
           /\ nyt_titles = << [title |-> TheCatSat, total_weeks |-> 1] >> =>
                WordsOf(text_data') = << <<"c","a","t">>, <<"s","a","t">> >>
      /\ pc = "render" =>
           /\ str_split(text') = WordsOf(text_data)
           /\ Cardinality({i \in 1..Len(text') : text'[i] = " "}) = Len(text_data) - 1
           /\ words = WordsOf(text_data)
    ]_vars

C8_Witness ==
  /\ pc = "done"
  /\ \E p \in SelectedPos : nyt_titles[p].title = ABad
  /\ \E i, j \in 1..Len(words) : i # j /\ words[i] = words[j]
  /\ Len(text) > 0

(* ---- C9 --------------------------------------------------------------- *)
\* C9: every row of plot_data carries a score, never a missing value.
C9_NoMissingScore ==
  AfterAggregate => \A i \in 1..Len(plot_data) : plot_data[i].scores # NaNScore

C9_Witness ==
  /\ pc = "done"
  /\ \E i \in 1..Len(plot_data) :
       afn_score(plot_data[i].word) = 0 /\ plot_data[i].scores = Some(0)

(* ---- C10 -------------------------------------------------------------- *)
ToAverage == <<"selector", "tokenizer", "stopword filter", "scorer", "average">>
AllStages == ToAverage \o <<"aggregator", "renderer">>
\* the tokens that survive tokenization and stopword filtering of the rows
\* the selector keeps (none for a table without rows)
Survivors ==
  LET n == Len(nyt_titles)
  IN FilterStopwords(Tokenizer(TitleRows(nyt_titles,
       SubSeq(SortDesc(nyt_titles, 1..n), 1, Min(K, n)))))

====
